---- MODULE Spec2Model ----
(***************************************************************************)
(* fontlet (src/fontlet.go): a Bubble Tea program.  The session is the     *)
(* `model` struct; `Update` is its only handler.  Commands returned by     *)
(* Update run off the event loop and deliver exactly one message back.     *)
(*                                                                         *)
(* Strings are sequences of one-character strings.  The external tool      *)
(* (figlet), the file system and the terminal are the environment: their   *)
(* outcomes are chosen with \E when a task completes.                      *)
(***************************************************************************)
EXTENDS Integers, Sequences, FiniteSets, TLC

VARIABLES
    m,        \* the session: the `model` struct held by the event loop
    tasks,    \* per slot, the commands dispatched and not yet completed
    quit,     \* the program has terminated (tea.Quit was returned, or os.Exit)
    ev,       \* history: the type of the message the last step handled
    ndisp,    \* history: how many commands the keys have dispatched so far
    call,     \* a pure function called on its own: arguments and results
    args,     \* os.Args[1:], the arguments the program was started with
    renderedFor   \* history: the font path and text of the render command
                  \* whose output fullFigletOutput holds

vars == <<m, tasks, quit, ev, ndisp, call, args, renderedFor>>

----------------------------------------------------------------------------
(* Bounds of the model *)

\* longest value typed into the text input
MaxText == 1
\* commands dispatched and not yet completed, over all slots
MaxInFlight == 2
\* font files a discovery finds
MaxFonts == 2
\* commands the keys of one run dispatch (previews, renders, saves)
MaxDispatched == 4
\* longest text handed to truncateString on its own
MaxLen == 4
\* largest line budget handed to truncateString on its own
MaxBudget == 3
\* longest text tried in a text field when Enter is examined on its own
MaxTyped == 3
\* widest terminal whose wrap widths are computed on their own
MaxWidth == 120
\* commands the keys of one run dispatch under fair scheduling
LiveDispatched == 3

(* Program constants *)

previewLines == 11
CharLimit == 256
\* docStyle = Margin(1, 2): two columns left and right
DocStyleHorizontalFrameSize == 4
MinRenderWidth == 20
PreviewMargin == 20

----------------------------------------------------------------------------
(* Strings *)

NL == "\n"
\* the literal "Error rendering: " of the placeholder, kept as one symbol
ErrorRenderingPrefix == "Error rendering: "

IsSpace(c) == c \in {" ", NL}

RECURSIVE TrimLeft(_)
TrimLeft(s) ==
    IF s # <<>> /\ IsSpace(Head(s)) THEN TrimLeft(Tail(s)) ELSE s

RECURSIVE TrimRight(_)
TrimRight(s) ==
    IF s # <<>> /\ IsSpace(s[Len(s)]) THEN TrimRight(SubSeq(s, 1, Len(s) - 1)) ELSE s

\* strings.TrimSpace
TrimSpace(s) == TrimRight(TrimLeft(s))

\* strings.Split(s, "\n"): always at least one line
RECURSIVE Split(_)
Split(s) ==
    IF \E i \in 1..Len(s) : s[i] = NL
    THEN LET i == CHOOSE j \in 1..Len(s) : s[j] = NL /\ \A k \in 1..(j - 1) : s[k] # NL
         IN  <<SubSeq(s, 1, i - 1)>> \o Split(SubSeq(s, i + 1, Len(s)))
    ELSE <<s>>

\* strings.Join(lines, "\n")
RECURSIVE Join(_)
Join(lines) ==
    IF lines = <<>> THEN <<>>
    ELSE IF Len(lines) = 1 THEN lines[1]
    ELSE lines[1] \o <<NL>> \o Join(Tail(lines))

\* an `if` in place of the loop: one blank line dropped at most
DropTrailingBlank_Once(lines) ==
    IF Len(lines) > 0 /\ TrimSpace(lines[Len(lines)]) = <<>>
    THEN SubSeq(lines, 1, Len(lines) - 1)
    ELSE lines

RECURSIVE DropTrailingBlank(_)
DropTrailingBlank(lines) ==
    IF Len(lines) > 0 /\ TrimSpace(lines[Len(lines)]) = <<>>
    THEN DropTrailingBlank(SubSeq(lines, 1, Len(lines) - 1))
    ELSE lines

\* truncation that strips the blank tail of the whole text before cutting
truncateString_StripFirst(s, maxLines) ==
    LET lines == DropTrailingBlank(Split(s))
        kept  == IF Len(lines) > maxLines THEN SubSeq(lines, 1, maxLines) ELSE lines
    IN  Join(kept)

truncateString(s, maxLines) ==
    LET lines == Split(s)
        kept  == IF Len(lines) > maxLines THEN SubSeq(lines, 1, maxLines) ELSE lines
    IN  Join(DropTrailingBlank(kept))

RECURSIVE Repeat(_, _)
Repeat(s, n) == IF n = 0 THEN <<>> ELSE s \o Repeat(s, n - 1)

----------------------------------------------------------------------------
(* The external tool *)

\* what one invocation of the tool can print; the with-width and the
\* no-width form of a call print different text.  WideArt has more lines than
\* a preview keeps, and a blank line among the kept ones; NarrowArt fits
WideArt   == Repeat(<<"x", NL>>, previewLines - 1) \o <<" ", NL, "x", NL>>
NarrowArt == Repeat(<<"x", NL>>, previewLines - 1)

Fail == [ok |-> FALSE, out |-> <<>>]
Prints(s) == [ok |-> TRUE, out |-> s]

\* a behaviour of the tool for one (font, text): the outcome of the call
\* with -w and of the call without
ToolBehaviours ==
    [withWidth : {Fail, Prints(WideArt)}, noWidth : {Fail, Prints(NarrowArt)}]

NoWidth == -1
Call(fontPath, text, width) == [font |-> fontPath, text |-> text, width |-> width]

\* the error of a failed invocation, as text
FigletFailed == <<"figlet failed">>

runFiglet_NoRetry(tool, fontPath, text, width) ==
    LET first == tool.withWidth
    IN  [ok |-> first.ok, output |-> first.out,
         err |-> IF first.ok THEN <<>> ELSE FigletFailed,
         calls |-> <<Call(fontPath, text, width)>>]

runFiglet(tool, fontPath, text, width) ==
    LET first  == tool.withWidth
        second == tool.noWidth
    IN  IF first.ok
        THEN [ok |-> TRUE, output |-> first.out, err |-> <<>>,
              calls |-> <<Call(fontPath, text, width)>>]
        ELSE IF second.ok
        THEN [ok |-> TRUE, output |-> second.out, err |-> <<>>,
              calls |-> <<Call(fontPath, text, width), Call(fontPath, text, NoWidth)>>]
        ELSE [ok |-> FALSE, output |-> <<>>, err |-> FigletFailed,
              calls |-> <<Call(fontPath, text, width), Call(fontPath, text, NoWidth)>>]

----------------------------------------------------------------------------
(* Fonts and their discovery *)

\* the .flf files the font directory can hold
FontPaths == {"/f/a.flf", "/f/b.flf"}

\* strings.TrimSuffix(filepath.Base(p), filepath.Ext(...))
FontName(p) == IF p = "/f/b.flf" THEN "b" ELSE "a"

fontMetadata(name, path, preview) ==
    [Name |-> name, Path |-> path, PreviewRender |-> preview]

ZeroFont == fontMetadata("", "", <<>>)

\* fonts[i].Name < fonts[j].Name on the names of FontPaths
NameLess(a, b) == (a = "a" /\ b = "b")

\* the found files in any order the walk gives them, not sorted
SortedByName_WalkOrder(files) ==
    {fs \in [1..Cardinality(files) -> {fontMetadata(FontName(p), p, <<>>) : p \in files}] :
        \A i, j \in 1..Cardinality(files) : i # j => fs[i] # fs[j]}

\* the orders sort.Slice (not stable) can leave the found files in
SortedByName(files) ==
    {fs \in [1..Cardinality(files) -> {fontMetadata(FontName(p), p, <<>>) : p \in files}] :
        /\ \A i, j \in 1..Cardinality(files) : i # j => fs[i] # fs[j]
        /\ \A i \in 1..(Cardinality(files) - 1) : ~NameLess(fs[i + 1].Name, fs[i].Name)}

\* what the file system shows a discovery: is there a font directory, does
\* the walk fail, which font files lie under it
Discoveries ==
    [dir : BOOLEAN, walkOk : BOOLEAN,
     files : {fs \in SUBSET FontPaths : Cardinality(fs) <= MaxFonts}]

ErrNoFontDir  == <<"could not find figlet font directory">>
ErrWalk       == <<"error walking font directory">>
ErrNoFonts    == <<"no .flf font files found">>
ErrFullOutput == <<"failed to run figlet for full output: ">>
ErrSave       == <<"failed to save file">>

\* the results findFigletFonts can return for what the file system shows
findFigletFonts(d) ==
    IF ~d.dir THEN {[ok |-> FALSE, fonts |-> <<>>, err |-> ErrNoFontDir]}
    ELSE IF ~d.walkOk THEN {[ok |-> FALSE, fonts |-> <<>>, err |-> ErrWalk]}
    ELSE IF d.files = {} THEN {[ok |-> FALSE, fonts |-> <<>>, err |-> ErrNoFonts]}
    ELSE {[ok |-> TRUE, fonts |-> fs, err |-> <<>>] : fs \in SortedByName(d.files)}

----------------------------------------------------------------------------
(* Messages and commands *)

initialResourcesLoadedMsg(fonts) == [type |-> "initialResourcesLoaded", fonts |-> fonts]
previewsGeneratedMsg(fonts)      == [type |-> "previewsGenerated", fontsWithPreviews |-> fonts]
fullFigletRenderedMsg(output)    == [type |-> "fullFigletRendered", output |-> output]
fileSavedMsg(path)               == [type |-> "fileSaved", path |-> path]
errorMsg(err)                    == [type |-> "error", err |-> err]
statusTimeoutMsg                 == [type |-> "statusTimeout"]
WindowSizeMsg(w, h)              == [type |-> "windowSize", Width |-> w, Height |-> h]
KeyMsg(k)                        == [type |-> "key", key |-> k]

Slots == {"discovery", "preview", "render", "save", "tick"}

\* a command holds the copy of the session (or the arguments) it was built with
loadInitialFontsCmd(mm) == [slot |-> "discovery"]

generatePreviewsCmd(mm) ==
    [slot |-> "preview", fonts |-> mm.fonts, inputText |-> mm.inputText,
     termWidth |-> mm.termWidth]

renderFullFigletCmd(mm, fontPath, text) ==
    [slot |-> "render", fontPath |-> fontPath, text |-> text, termWidth |-> mm.termWidth]

saveToFileCmd(mm, filename, content) ==
    [slot |-> "save", filename |-> filename, content |-> content]

\* tea.Tick(2s, ...) of the fileSavedMsg case
statusTick == [slot |-> "tick"]

previewRenderWidth(termWidth) ==
    IF termWidth - PreviewMargin < MinRenderWidth THEN MinRenderWidth
    ELSE termWidth - PreviewMargin

\* the width of the full output without the floor
renderWidth_NoFloor(termWidth) == termWidth - DocStyleHorizontalFrameSize - 4

renderWidth(termWidth) ==
    IF termWidth - DocStyleHorizontalFrameSize - 4 < MinRenderWidth THEN MinRenderWidth
    ELSE termWidth - DocStyleHorizontalFrameSize - 4

\* the body of loadInitialFontsCmd's function, for one result of findFigletFonts
RunLoadInitialFonts(r) ==
    [msg |-> IF r.ok THEN initialResourcesLoadedMsg(r.fonts) ELSE errorMsg(r.err),
     calls |-> <<>>]

\* a batch that stores the rendered output as it came
PreviewOf_Raw(font, r) ==
    [font EXCEPT !.PreviewRender =
        IF ~r.ok THEN <<ErrorRenderingPrefix>> \o r.err ELSE r.output]

PreviewOf(font, r) ==
    [font EXCEPT !.PreviewRender =
        IF ~r.ok THEN <<ErrorRenderingPrefix>> \o r.err
        ELSE truncateString(r.output, previewLines)]

RECURSIVE ConcatAll(_)
ConcatAll(ss) == IF ss = <<>> THEN <<>> ELSE Head(ss) \o ConcatAll(Tail(ss))

\* a batch that gives up at the first font whose rendering fails
RunGeneratePreviews_Abort(cmd, tool) ==
    LET runs == [i \in 1..Len(cmd.fonts) |->
                    runFiglet(tool[i], cmd.fonts[i].Path, cmd.inputText,
                              previewRenderWidth(cmd.termWidth))]
    IN  IF \E i \in 1..Len(cmd.fonts) : ~runs[i].ok
        THEN [msg |-> errorMsg(FigletFailed),
              calls |-> ConcatAll([i \in 1..Len(cmd.fonts) |-> runs[i].calls])]
        ELSE [msg |-> previewsGeneratedMsg(
                        [i \in 1..Len(cmd.fonts) |-> PreviewOf(cmd.fonts[i], runs[i])]),
              calls |-> ConcatAll([i \in 1..Len(cmd.fonts) |-> runs[i].calls])]

\* a batch that reads the text and the width from the session when it runs
RunGeneratePreviews_Live(cmd, tool) ==
    LET runs == [i \in 1..Len(cmd.fonts) |->
                    runFiglet(tool[i], cmd.fonts[i].Path, m.inputText,
                              previewRenderWidth(m.termWidth))]
    IN  [msg |-> previewsGeneratedMsg(
                    [i \in 1..Len(cmd.fonts) |-> PreviewOf(cmd.fonts[i], runs[i])]),
         calls |-> ConcatAll([i \in 1..Len(cmd.fonts) |-> runs[i].calls])]

\* the body of generatePreviewsCmd's function; tool[i] is the tool's
\* behaviour on the i-th font
RunGeneratePreviews(cmd, tool) ==
    LET runs == [i \in 1..Len(cmd.fonts) |->
                    runFiglet(tool[i], cmd.fonts[i].Path, cmd.inputText,
                              previewRenderWidth(cmd.termWidth))]
    IN  [msg |-> previewsGeneratedMsg(
                    [i \in 1..Len(cmd.fonts) |-> PreviewOf(cmd.fonts[i], runs[i])]),
         calls |-> ConcatAll([i \in 1..Len(cmd.fonts) |-> runs[i].calls])]

\* the body of renderFullFigletCmd's function
RunRenderFullFiglet(cmd, tool) ==
    LET r == runFiglet(tool, cmd.fontPath, cmd.text, renderWidth(cmd.termWidth))
    IN  [msg |-> IF r.ok THEN fullFigletRenderedMsg(r.output)
                 ELSE errorMsg(ErrFullOutput \o r.err),
         calls |-> r.calls]

\* the body of saveToFileCmd's function; written: os.WriteFile succeeded
RunSaveToFile(cmd, written) ==
    [msg |-> IF written THEN fileSavedMsg(cmd.filename) ELSE errorMsg(ErrSave),
     calls |-> <<>>]

----------------------------------------------------------------------------
(* The session and the widgets it holds *)

States ==
    {"stateInitialLoading", "stateInputText", "stateLoadingPreviews",
     "stateSelectFontWithPreview", "stateGeneratingFullOutput", "stateOutputChoice",
     "stateSaveFileNameInput", "stateDisplayFiglet", "stateShowStatusMessage",
     "stateError"}

\* the keys the terminal delivers
Runes == {"t", "f", "q", " "}
TextRunes == {"t", " "}
Keys  == Runes \cup {"enter", "esc", "ctrl+c", "backspace", "up", "down"}

NoStatus     == <<>>
ChoicePrompt == <<"Output to (t)erminal or save to (f)ile?">>
SavedStatus(path) == <<"Saved to ">> \o path \o <<"!">>

ErrNoFiglet == <<"figlet command not found. Please install figlet to use this script.">>

\* textinput.Model: its value and whether it has the focus (the cursor stays
\* at the end: no key of Keys moves it)
TextInputFocus(ti) == [ti EXCEPT !.focus = TRUE]
TextInputBlur(ti)  == [ti EXCEPT !.focus = FALSE]
TextInputSetValue(ti, s) ==
    [ti EXCEPT !.value = IF Len(s) > CharLimit THEN SubSeq(s, 1, CharLimit) ELSE s]

TextInputUpdate(ti, k) ==
    IF ~ti.focus THEN ti
    ELSE IF k \in Runes
    THEN IF Len(ti.value) < CharLimit THEN [ti EXCEPT !.value = @ \o <<k>>] ELSE ti
    ELSE IF k = "backspace" /\ ti.value # <<>>
    THEN [ti EXCEPT !.value = SubSeq(@, 1, Len(@) - 1)]
    ELSE ti

\* list.Model: its items and the cursor (1-based); list.New puts the cursor on
\* the first item.  Filtering is not modelled: no key of Keys starts it.
ListNew(items) == [items |-> items, index |-> 1]
ZeroList == [items |-> <<>>, index |-> 1]

ListSelectedItem(l) ==
    IF l.index \in 1..Len(l.items)
    THEN [ok |-> TRUE, item |-> l.items[l.index]]
    ELSE [ok |-> FALSE, item |-> ZeroFont]

ListUpdate(l, k) ==
    IF k = "up" /\ l.index > 1 THEN [l EXCEPT !.index = @ - 1]
    ELSE IF k = "down" /\ l.index < Len(l.items) THEN [l EXCEPT !.index = @ + 1]
    ELSE l

\* initialModel when exec.LookPath finds figlet
initialModel ==
    [state            |-> "stateInitialLoading",
     textInput        |-> [value |-> <<>>, focus |-> TRUE],
     fontList         |-> ZeroList,
     fonts            |-> <<>>,
     fullFigletOutput |-> <<>>,
     inputText        |-> <<>>,
     selectedFontMeta |-> ZeroFont,
     termWidth        |-> 0,
     termHeight       |-> 0,
     errorMessage     |-> <<>>,
     statusMessage    |-> NoStatus]

\* initialModel when it does not: main prints the message and exits
initialModelNoFiglet ==
    [initialModel EXCEPT !.state = "stateError", !.errorMessage = ErrNoFiglet,
                         !.textInput = [value |-> <<>>, focus |-> FALSE]]

----------------------------------------------------------------------------
(* Update: the session and the commands it returns for one message.        *)
(* The spinner and its ticks, and the sizes of the panes, are not state    *)
(* any of the cases below reads; they are left out.                        *)

Result(mm, cmds, q) == [m |-> mm, cmds |-> cmds, quit |-> q]

\* a resize that records the height only
UpdateWindowSize_HeightOnly(mm, msg) ==
    Result([mm EXCEPT !.termHeight = msg.Height], <<>>, FALSE)

UpdateWindowSize(mm, msg) ==
    Result([mm EXCEPT !.termWidth = msg.Width, !.termHeight = msg.Height], <<>>, FALSE)

UpdateInitialResourcesLoaded(mm, msg) ==
    Result([mm EXCEPT !.fonts = msg.fonts,
                      !.state = "stateInputText",
                      !.textInput = TextInputFocus(@)], <<>>, FALSE)

\* previews stored without leaving the loading screen
UpdatePreviewsGenerated_StayLoading(mm, msg) ==
    Result([mm EXCEPT !.fonts = msg.fontsWithPreviews,
                      !.fontList = ListNew(msg.fontsWithPreviews)], <<>>, FALSE)

UpdatePreviewsGenerated(mm, msg) ==
    Result([mm EXCEPT !.fonts = msg.fontsWithPreviews,
                      !.fontList = ListNew(msg.fontsWithPreviews),
                      !.state = "stateSelectFontWithPreview"], <<>>, FALSE)

UpdateFullFigletRendered(mm, msg) ==
    Result([mm EXCEPT !.fullFigletOutput = msg.output,
                      !.state = "stateOutputChoice",
                      !.statusMessage = ChoicePrompt], <<>>, FALSE)

UpdateFileSaved(mm, msg) ==
    Result([mm EXCEPT !.statusMessage = SavedStatus(msg.path),
                      !.state = "stateShowStatusMessage"], <<statusTick>>, FALSE)

UpdateStatusTimeout(mm, msg) ==
    Result([mm EXCEPT !.statusMessage = NoStatus,
                      !.state = "stateSelectFontWithPreview"], <<>>, FALSE)

\* the error screen built the way initialModel builds it: a fresh session
UpdateError_Fresh(mm, msg) ==
    Result([initialModel EXCEPT !.errorMessage = msg.err, !.state = "stateError"],
           <<>>, FALSE)

UpdateError(mm, msg) ==
    Result([mm EXCEPT !.errorMessage = msg.err, !.state = "stateError"], <<>>, FALSE)

\* Enter that confirms the text as typed, white space included
KeyInputText_NoTrim(mm, k) ==
    IF k = "enter"
    THEN LET m1 == [mm EXCEPT !.inputText = mm.textInput.value]
             m2 == [m1 EXCEPT !.state = "stateLoadingPreviews",
                              !.textInput = TextInputBlur(@)]
         IN  IF m1.inputText # <<>>
             THEN Result(m2, <<generatePreviewsCmd(m2)>>, FALSE)
             ELSE Result(m1, <<>>, FALSE)
    ELSE Result([mm EXCEPT !.textInput = TextInputUpdate(@, k)], <<>>, FALSE)

KeyInputText(mm, k) ==
    IF k = "enter"
    THEN LET m1 == [mm EXCEPT !.inputText = TrimSpace(mm.textInput.value)]
             m2 == [m1 EXCEPT !.state = "stateLoadingPreviews",
                              !.textInput = TextInputBlur(@)]
         IN  IF m1.inputText # <<>>
             THEN Result(m2, <<generatePreviewsCmd(m2)>>, FALSE)
             ELSE Result(m1, <<>>, FALSE)
    ELSE Result([mm EXCEPT !.textInput = TextInputUpdate(@, k)], <<>>, FALSE)

KeySelectFont(mm, k) ==
    IF k = "esc"
    THEN Result([mm EXCEPT !.state = "stateInputText",
                           !.textInput = TextInputFocus(TextInputSetValue(@, mm.inputText))],
                <<>>, FALSE)
    ELSE LET selected == ListSelectedItem(mm.fontList)
             m1 == IF k = "enter" /\ selected.ok
                   THEN [mm EXCEPT !.selectedFontMeta = selected.item,
                                   !.state = "stateGeneratingFullOutput"]
                   ELSE mm
             cmds == IF k = "enter" /\ selected.ok
                     THEN <<renderFullFigletCmd(m1, m1.selectedFontMeta.Path, m1.inputText)>>
                     ELSE <<>>
         IN  Result([m1 EXCEPT !.fontList = ListUpdate(@, k)], cmds, FALSE)

KeyOutputChoice(mm, k) ==
    IF k = "t"
    THEN Result([mm EXCEPT !.state = "stateDisplayFiglet", !.statusMessage = NoStatus],
                <<>>, FALSE)
    ELSE IF k = "f"
    THEN Result([mm EXCEPT !.textInput = TextInputFocus(TextInputSetValue(@, <<>>)),
                           !.state = "stateSaveFileNameInput",
                           !.statusMessage = NoStatus], <<>>, FALSE)
    ELSE IF k = "esc"
    THEN Result([mm EXCEPT !.state = "stateSelectFontWithPreview",
                           !.statusMessage = NoStatus], <<>>, FALSE)
    ELSE Result(mm, <<>>, FALSE)

\* Enter that saves the confirmed text in place of the rendered output
KeySaveFileNameInput_SavesText(mm, k) ==
    IF k = "enter"
    THEN LET filename == TrimSpace(mm.textInput.value)
             m1 == [mm EXCEPT !.textInput = TextInputBlur(@)]
         IN  IF filename # <<>>
             THEN Result(m1, <<saveToFileCmd(m1, filename, m1.inputText)>>, FALSE)
             ELSE Result(mm, <<>>, FALSE)
    ELSE IF k = "esc"
    THEN Result([mm EXCEPT !.state = "stateOutputChoice",
                           !.statusMessage = ChoicePrompt,
                           !.textInput = TextInputBlur(@)], <<>>, FALSE)
    ELSE Result([mm EXCEPT !.textInput = TextInputUpdate(@, k)], <<>>, FALSE)

KeySaveFileNameInput(mm, k) ==
    IF k = "enter"
    THEN LET filename == TrimSpace(mm.textInput.value)
             m1 == [mm EXCEPT !.textInput = TextInputBlur(@)]
         IN  IF filename # <<>>
             THEN Result(m1, <<saveToFileCmd(m1, filename, m1.fullFigletOutput)>>, FALSE)
             ELSE Result(mm, <<>>, FALSE)
    ELSE IF k = "esc"
    THEN Result([mm EXCEPT !.state = "stateOutputChoice",
                           !.statusMessage = ChoicePrompt,
                           !.textInput = TextInputBlur(@)], <<>>, FALSE)
    ELSE Result([mm EXCEPT !.textInput = TextInputUpdate(@, k)], <<>>, FALSE)

\* leaving the display that generates the previews anew
KeyDisplayFiglet_Regenerate(mm, k) ==
    IF k \in {"esc", "q"}
    THEN Result([mm EXCEPT !.state = "stateSelectFontWithPreview"],
                <<generatePreviewsCmd(mm)>>, FALSE)
    ELSE Result(mm, <<>>, FALSE)

KeyDisplayFiglet(mm, k) ==
    IF k \in {"esc", "q"}
    THEN Result([mm EXCEPT !.state = "stateSelectFontWithPreview"], <<>>, FALSE)
    ELSE Result(mm, <<>>, FALSE)

KeyShowStatusMessage(mm, k) ==
    IF k \in {"enter", "esc"}
    THEN Result([mm EXCEPT !.statusMessage = NoStatus,
                           !.state = "stateSelectFontWithPreview"], <<>>, FALSE)
    ELSE Result(mm, <<>>, FALSE)

KeyError(mm, k) ==
    IF k \in {"q", "esc", "enter"} THEN Result(mm, <<>>, TRUE) ELSE Result(mm, <<>>, FALSE)

\* the switch on m.state of the tea.KeyMsg case
KeyByState(mm, k) ==
    CASE mm.state = "stateInputText"             -> KeyInputText(mm, k)
      [] mm.state = "stateSelectFontWithPreview" -> KeySelectFont(mm, k)
      [] mm.state = "stateOutputChoice"          -> KeyOutputChoice(mm, k)
      [] mm.state = "stateSaveFileNameInput"     -> KeySaveFileNameInput(mm, k)
      [] mm.state = "stateDisplayFiglet"         -> KeyDisplayFiglet(mm, k)
      [] mm.state = "stateShowStatusMessage"     -> KeyShowStatusMessage(mm, k)
      [] mm.state = "stateError"                 -> KeyError(mm, k)
      [] OTHER                                   -> Result(mm, <<>>, FALSE)

\* ctrl+c honoured only by the screens the switch has a case for
UpdateKey_QuitPerScreen(mm, msg) ==
    IF /\ msg.key = "ctrl+c"
       /\ mm.state \notin {"stateInitialLoading", "stateLoadingPreviews",
                            "stateGeneratingFullOutput"}
    THEN Result(mm, <<>>, TRUE)
    ELSE KeyByState(mm, msg.key)

UpdateKey(mm, msg) ==
    IF msg.key = "ctrl+c" THEN Result(mm, <<>>, TRUE) ELSE KeyByState(mm, msg.key)

Update(mm, msg) ==
    CASE msg.type = "windowSize"             -> UpdateWindowSize(mm, msg)
      [] msg.type = "initialResourcesLoaded" -> UpdateInitialResourcesLoaded(mm, msg)
      [] msg.type = "previewsGenerated"      -> UpdatePreviewsGenerated(mm, msg)
      [] msg.type = "fullFigletRendered"     -> UpdateFullFigletRendered(mm, msg)
      [] msg.type = "fileSaved"              -> UpdateFileSaved(mm, msg)
      [] msg.type = "statusTimeout"          -> UpdateStatusTimeout(mm, msg)
      [] msg.type = "error"                  -> UpdateError(mm, msg)
      [] msg.type = "key"                    -> UpdateKey(mm, msg)

----------------------------------------------------------------------------
(* The event loop *)

\* the sizes the terminal reports
Sizes == {<<100, 40>>}

NoTasks == [s \in Slots |-> <<>>]

Remove(seq, i) == SubSeq(seq, 1, i - 1) \o SubSeq(seq, i + 1, Len(seq))

\* the commands of cmds that go to slot s
SlotCmds(cmds, s) == SelectSeq(cmds, LAMBDA c : c.slot = s)

\* tasks after the i-th command of slot `done` ("none": no command) completed
\* and cmds were dispatched
After(done, i, cmds) ==
    [s \in Slots |->
        (IF s = done THEN Remove(tasks[s], i) ELSE tasks[s]) \o SlotCmds(cmds, s)]

\* the commands of cmds other than the status tick
KeyCmds(cmds) == Len(SelectSeq(cmds, LAMBDA c : c.slot # "tick"))

InFlight(ts) ==
    Len(ts["discovery"]) + Len(ts["preview"]) + Len(ts["render"]) + Len(ts["save"])
        + Len(ts["tick"])

\* one pass of the loop: msg is handled by Update; it is the message of the
\* i-th command of slot `done`, or a key or a resize (done = "none")
Handle(msg, done, i) ==
    LET r == Update(m, msg)
    IN  /\ ~quit
        /\ InFlight(After(done, i, r.cmds)) <= MaxInFlight
        /\ Len(r.m.textInput.value) <= MaxText
        /\ m' = r.m
        /\ quit' = r.quit
        /\ tasks' = After(done, i, r.cmds)
        /\ ndisp + KeyCmds(r.cmds) <= MaxDispatched
        /\ ndisp' = ndisp + KeyCmds(r.cmds)
        /\ ev' = msg.type
        /\ renderedFor' =
              IF msg.type = "fullFigletRendered"
              THEN [fontPath |-> tasks[done][i].fontPath, text |-> tasks[done][i].text]
              ELSE renderedFor
        /\ UNCHANGED <<call, args>>

\* no pure function is called on its own
NoCall == [stage |-> "none"]

\* the program started without arguments
NoArgs == <<>>

\* no render has completed yet
NoRender == [fontPath |-> "", text |-> <<>>]

\* main: the program starts with initialModel and Init's commands, or exits
\* at once when figlet is not installed
Init ==
    \/ /\ m = initialModel
       /\ tasks = [NoTasks EXCEPT !["discovery"] = <<loadInitialFontsCmd(initialModel)>>]
       /\ quit = FALSE
       /\ ev = "none"
       /\ ndisp = 0
       /\ call = NoCall
       /\ args = NoArgs
       /\ renderedFor = NoRender
    \/ /\ m = initialModelNoFiglet
       /\ tasks = NoTasks
       /\ quit = TRUE
       /\ ev = "none"
       /\ ndisp = 0
       /\ call = NoCall
       /\ args = NoArgs
       /\ renderedFor = NoRender

\* the user types only TextRunes into a text field: the field treats every
\* rune alike
KeyPressOf(k) ==
    /\ (m.state \in {"stateInputText", "stateSaveFileNameInput"} /\ k \in Runes)
            => k \in TextRunes
    /\ Handle(KeyMsg(k), "none", 0)

KeyPress == \E k \in Keys : KeyPressOf(k)

Resize ==
    \E sz \in Sizes : Handle(WindowSizeMsg(sz[1], sz[2]), "none", 0)

DiscoveryDone ==
    \E i \in 1..Len(tasks["discovery"]), d \in Discoveries :
        \E r \in findFigletFonts(d) :
            Handle(RunLoadInitialFonts(r).msg, "discovery", i)

PreviewsDone ==
    \E i \in 1..Len(tasks["preview"]) :
        \E tool \in [1..Len(tasks["preview"][i].fonts) -> ToolBehaviours] :
            LET run == RunGeneratePreviews(tasks["preview"][i], tool)
            IN  Handle(run.msg, "preview", i)

RenderDone ==
    \E i \in 1..Len(tasks["render"]), tool \in ToolBehaviours :
        LET run == RunRenderFullFiglet(tasks["render"][i], tool)
        IN  Handle(run.msg, "render", i)

SaveDone ==
    \E i \in 1..Len(tasks["save"]), written \in BOOLEAN :
        Handle(RunSaveToFile(tasks["save"][i], written).msg, "save", i)

StatusTimeout ==
    \E i \in 1..Len(tasks["tick"]) :
        Handle(statusTimeoutMsg, "tick", i)

Next ==
    \/ KeyPress
    \/ Resize
    \/ DiscoveryDone
    \/ PreviewsDone
    \/ RenderDone
    \/ SaveDone
    \/ StatusTimeout

Spec == Init /\ [][Next]_vars

----------------------------------------------------------------------------
(* The program under fair scheduling: a command that was started returns    *)
(* its message and the loop hands it to Update; no key that ends the        *)
(* program is pressed                                                       *)

KeyPressNoQuit ==
    \E k \in Keys : KeyPressOf(k) /\ ~quit' /\ ndisp' <= LiveDispatched

NextLive ==
    \/ KeyPressNoQuit
    \/ Resize
    \/ DiscoveryDone
    \/ PreviewsDone
    \/ RenderDone
    \/ SaveDone
    \/ StatusTimeout

SpecLive ==
    /\ Init
    /\ [][NextLive]_vars
    /\ WF_vars(DiscoveryDone)
    /\ WF_vars(PreviewsDone)
    /\ WF_vars(RenderDone)

----------------------------------------------------------------------------
(* The program started from the command line, with or without a text *)

\* the argument lists the program is started with
Args == {NoArgs, <<<<"t">>>>}

\* main and initialModel read no argument
InitArgs ==
    \/ /\ m = initialModel
       /\ tasks = [NoTasks EXCEPT !["discovery"] = <<loadInitialFontsCmd(initialModel)>>]
       /\ quit = FALSE
       /\ ev = "none"
       /\ ndisp = 0
       /\ call = NoCall
       /\ args \in Args
       /\ renderedFor = NoRender
    \/ /\ m = initialModelNoFiglet
       /\ tasks = NoTasks
       /\ quit = TRUE
       /\ ev = "none"
       /\ ndisp = 0
       /\ call = NoCall
       /\ args \in Args
       /\ renderedFor = NoRender

SpecArgs == InitArgs /\ [][Next]_vars

----------------------------------------------------------------------------
(* truncateString on its own: the text and the budget are drawn, then the   *)
(* function is applied, then applied again to its own result                *)

TruncChars == {"x", " ", NL}

TruncInputs == UNION {[1..n -> TruncChars] : n \in 0..MaxLen}

InitTruncate ==
    /\ m = initialModel
    /\ tasks = NoTasks
    /\ quit = FALSE
    /\ ev = "none"
    /\ ndisp = 0
    /\ args = NoArgs
    /\ renderedFor = NoRender
    /\ \E s \in TruncInputs, n \in 0..MaxBudget :
            call = [stage |-> "drawn", s |-> s, n |-> n, out |-> <<>>, again |-> <<>>]

Truncate ==
    /\ call.stage = "drawn"
    /\ call' = [call EXCEPT !.stage = "truncated", !.out = truncateString(call.s, call.n)]
    /\ UNCHANGED <<m, tasks, quit, ev, ndisp, args, renderedFor>>

TruncateAgain ==
    /\ call.stage = "truncated"
    /\ call' = [call EXCEPT !.stage = "again", !.again = truncateString(call.out, call.n)]
    /\ UNCHANGED <<m, tasks, quit, ev, ndisp, args, renderedFor>>

NextTruncate ==
    \/ Truncate
    \/ TruncateAgain

SpecTruncate == InitTruncate /\ [][NextTruncate]_vars

----------------------------------------------------------------------------
(* The wrap widths on their own: a terminal width is drawn, then the width  *)
(* of the previews and the width of the full output are computed from it    *)

InitWidths ==
    /\ m = initialModel
    /\ tasks = NoTasks
    /\ quit = FALSE
    /\ ev = "none"
    /\ ndisp = 0
    /\ args = NoArgs
    /\ renderedFor = NoRender
    /\ \E w \in 0..MaxWidth :
            call = [stage |-> "width", termWidth |-> w, preview |-> 0, full |-> 0]

PreviewWidth ==
    /\ call.stage = "width"
    /\ call' = [call EXCEPT !.stage = "preview",
                            !.preview = previewRenderWidth(call.termWidth)]
    /\ UNCHANGED <<m, tasks, quit, ev, ndisp, args, renderedFor>>

FullWidth ==
    /\ call.stage = "preview"
    /\ call' = [call EXCEPT !.stage = "full", !.full = renderWidth(call.termWidth)]
    /\ UNCHANGED <<m, tasks, quit, ev, ndisp, args, renderedFor>>

NextWidths ==
    \/ PreviewWidth
    \/ FullWidth

SpecWidths == InitWidths /\ [][NextWidths]_vars

----------------------------------------------------------------------------
(* Properties *)

TaskSlots == {"discovery", "preview", "render", "save"}

FullOutputStates ==
    {"stateGeneratingFullOutput", "stateOutputChoice", "stateSaveFileNameInput",
     "stateDisplayFiglet", "stateShowStatusMessage"}

\* the step completed a command of slot s
Completed(s) == Len(tasks'[s]) < Len(tasks[s])

\* the step dispatched no command of a task slot
NoDispatch == \A s \in TaskSlots : Len(tasks'[s]) <= Len(tasks[s])

\* the fields of the session the frame conditions speak of
SameData ==
    /\ m'.fonts = m.fonts
    /\ m'.inputText = m.inputText
    /\ m'.selectedFontMeta = m.selectedFontMeta
    /\ m'.fullFigletOutput = m.fullFigletOutput

\* the transition table of the screens, each edge with the message that takes it
TableEdge(from, to, trigger) ==
    \/ from = "stateInitialLoading" /\ to = "stateInputText"
          /\ trigger = "initialResourcesLoaded"
    \/ from = "stateInputText" /\ to = "stateLoadingPreviews" /\ trigger = "key"
    \/ from = "stateLoadingPreviews" /\ to = "stateSelectFontWithPreview"
          /\ trigger = "previewsGenerated"
    \/ from = "stateSelectFontWithPreview" /\ trigger = "key"
          /\ to \in {"stateGeneratingFullOutput", "stateInputText"}
    \/ from = "stateGeneratingFullOutput" /\ to = "stateOutputChoice"
          /\ trigger = "fullFigletRendered"
    \/ from = "stateOutputChoice" /\ trigger = "key"
          /\ to \in {"stateDisplayFiglet", "stateSaveFileNameInput",
                     "stateSelectFontWithPreview"}
    \/ from = "stateSaveFileNameInput" /\ to = "stateShowStatusMessage"
          /\ trigger = "fileSaved"
    \/ from = "stateSaveFileNameInput" /\ to = "stateOutputChoice" /\ trigger = "key"
    \/ from = "stateDisplayFiglet" /\ to = "stateSelectFontWithPreview" /\ trigger = "key"
    \/ from = "stateShowStatusMessage" /\ to = "stateSelectFontWithPreview"
          /\ trigger \in {"key", "statusTimeout"}
    \/ to = "stateError" /\ trigger = "error"

\* C1: every change of the screen follows an edge of the transition table,
\* taken by the event the table names for it; no event moves the screen
\* along another edge.
C1_TransitionTable ==
    [][m'.state # m.state => TableEdge(m.state, m'.state, ev')]_vars

\* C2: a preview-batch completion handled while the screen is not
\* LoadingPreviews leaves screen, fonts, inputText, selectedFont and
\* fullOutput as they were.
C2_StalePreviewsIgnored ==
    [][(Completed("preview") /\ m.state # "stateLoadingPreviews")
            => (m'.state = m.state /\ SameData)]_vars

\* C3: in every reachable state each of the four slots (discovery, preview
\* batch, full render, save) holds at most one command dispatched and not
\* yet completed.
C3_OneTaskPerSlot == \A s \in TaskSlots : Len(tasks[s]) <= 1

\* C4: once the screen is Error it stays Error in every later state.
C4_ErrorAbsorbing ==
    [][m.state = "stateError" => m'.state = "stateError"]_vars

\* C5: ctrl+c handled in any screen terminates the program, whatever is in
\* flight; no per-screen handling happens, no field of the session changes
\* and nothing is dispatched.
C5_QuitKey ==
    [][KeyPressOf("ctrl+c") => (quit' /\ m' = m /\ tasks' = tasks)]_vars

\* ctrl+c ended the program in a screen without key handling, a command in flight
C5_Witness ==
    /\ quit
    /\ ev = "key"
    /\ m.state = "stateLoadingPreviews"
    /\ tasks["preview"] # <<>>

\* the reasons a failure of the command of slot s can carry
FailureReasons(s) ==
    IF s = "discovery" THEN {ErrNoFontDir, ErrWalk, ErrNoFonts}
    ELSE IF s = "render" THEN {ErrFullOutput \o FigletFailed}
    ELSE {ErrSave}

\* C6: a failure of the discovery, full-render or save command sets the
\* screen to Error and errorMessage to the reason, dispatches nothing and
\* leaves fonts, inputText, selectedFont and fullOutput alone; a preview
\* batch never completes with a failure.
C6_FailureIsFatal ==
    [][/\ \A s \in {"discovery", "render", "save"} :
            (Completed(s) /\ ev' = "error")
                => /\ m'.state = "stateError"
                   /\ m'.errorMessage \in FailureReasons(s)
                   /\ NoDispatch
                   /\ Len(tasks'["tick"]) = Len(tasks["tick"])
                   /\ SameData
       /\ Completed("preview") => ev' # "error"]_vars

\* a render failed after fonts, text and selection were set
C6_Witness ==
    /\ ev = "error"
    /\ m.state = "stateError"
    /\ m.errorMessage = ErrFullOutput \o FigletFailed
    /\ m.fonts # <<>>
    /\ m.inputText # <<>>
    /\ m.selectedFontMeta # ZeroFont

\* C7: escape in SelectFont moves to InputText with the text input holding
\* the confirmed inputText and dispatches nothing; Enter pressed next gives
\* the same inputText and moves to LoadingPreviews.
C7_EscapeRoundTrip ==
    [][(KeyPressOf("esc") /\ m.state = "stateSelectFontWithPreview")
            => /\ m'.state = "stateInputText"
               /\ m'.textInput.value = m.inputText
               /\ tasks' = tasks
               /\ LET r == Update(m', KeyMsg("enter"))
                  IN  /\ r.m.inputText = m.inputText
                      /\ r.m.state = "stateLoadingPreviews"]_vars

ToolFails(t) == ~t.withWidth.ok /\ ~t.noWidth.ok
ToolOutput(t) == IF t.withWidth.ok THEN t.withWidth.out ELSE t.noWidth.out

\* C8: for every preview batch in flight and every way the tool can fail on
\* its fonts, the batch resolves to a success message whose fonts have the
\* length, order, names and paths of its input; a failing font's preview
\* starts with "Error rendering: ", every other font's preview is its
\* output truncated to previewLines lines.
C8_PreviewBatch ==
    \A i \in 1..Len(tasks["preview"]) :
        LET cmd == tasks["preview"][i]
        IN  \A tool \in [1..Len(cmd.fonts) -> ToolBehaviours] :
                LET msg == RunGeneratePreviews(cmd, tool).msg
                IN  /\ msg.type = "previewsGenerated"
                    /\ Len(msg.fontsWithPreviews) = Len(cmd.fonts)
                    /\ \A j \in 1..Len(cmd.fonts) :
                        LET f == msg.fontsWithPreviews[j]
                        IN  /\ f.Name = cmd.fonts[j].Name
                            /\ f.Path = cmd.fonts[j].Path
                            /\ ToolFails(tool[j])
                                 => /\ f.PreviewRender # <<>>
                                    /\ Head(f.PreviewRender) = ErrorRenderingPrefix
                            /\ ~ToolFails(tool[j])
                                 => /\ f.PreviewRender =
                                         truncateString(ToolOutput(tool[j]), previewLines)
                                    /\ Len(Split(f.PreviewRender)) <= previewLines

\* a batch over two fonts came back with one placeholder and one preview
C8_Witness ==
    /\ ev = "previewsGenerated"
    /\ Len(m.fonts) = 2
    /\ m.fonts[1].PreviewRender = <<ErrorRenderingPrefix>> \o FigletFailed
    /\ m.fonts[2].PreviewRender = truncateString(WideArt, previewLines)
    /\ m.fonts[2].Name = "b"

\* the contract of one rendering invocation
RetryContract(tool, fontPath, text, width) ==
    LET r == runFiglet(tool, fontPath, text, width)
    IN  /\ r.calls[1] = Call(fontPath, text, width)
        /\ Len(r.calls) = IF tool.withWidth.ok THEN 1 ELSE 2
        /\ ~tool.withWidth.ok => r.calls[2] = Call(fontPath, text, NoWidth)
        /\ r.ok = (tool.withWidth.ok \/ tool.noWidth.ok)
        /\ r.ok => r.output = ToolOutput(tool)

\* C9: every rendering invocation of a command in flight calls the tool with
\* the width first, calls it once more without a width only if that failed,
\* succeeds with the output of the first call that succeeds and fails only
\* when both fail; a tool failing only with a width gives a rendered message.
C9_RenderRetry ==
    /\ \A i \in 1..Len(tasks["render"]) :
        LET cmd == tasks["render"][i]
        IN  \A tool \in ToolBehaviours :
                /\ RetryContract(tool, cmd.fontPath, cmd.text, renderWidth(cmd.termWidth))
                /\ RunRenderFullFiglet(cmd, tool).msg.type =
                      IF ToolFails(tool) THEN "error" ELSE "fullFigletRendered"
                /\ (~tool.withWidth.ok /\ tool.noWidth.ok)
                      => RunRenderFullFiglet(cmd, tool).msg
                            = fullFigletRenderedMsg(tool.noWidth.out)
    /\ \A i \in 1..Len(tasks["preview"]) :
        LET cmd == tasks["preview"][i]
        IN  \A tool \in ToolBehaviours, j \in 1..Len(cmd.fonts) :
                RetryContract(tool, cmd.fonts[j].Path, cmd.inputText,
                              previewRenderWidth(cmd.termWidth))

\* a full render succeeded with what the call without a width printed
C9_Witness ==
    /\ ev = "fullFigletRendered"
    /\ m.state = "stateOutputChoice"
    /\ m.fullFigletOutput = NarrowArt

\* C10: in the screens from GeneratingOutput on, selectedFont is an element
\* of fonts.
C10_SelectedFontInFonts ==
    m.state \in FullOutputStates
        => \E i \in 1..Len(m.fonts) : m.fonts[i] = m.selectedFontMeta

\* the lines of a text; the empty text has none
Lines(s) == IF s = <<>> THEN <<>> ELSE Split(s)

\* C11: in every reachable state every entry of fonts has a previewText of at
\* most previewLines lines, be it rendered text or the error placeholder.
C11_PreviewLineBudget ==
    \A i \in 1..Len(m.fonts) : Len(Lines(m.fonts[i].PreviewRender)) <= previewLines

\* fonts hold the preview of an output longer than the budget, and a placeholder
C11_Witness ==
    /\ Len(Lines(WideArt)) > previewLines
    /\ \E i \in 1..Len(m.fonts) :
            m.fonts[i].PreviewRender = truncateString(WideArt, previewLines)
    /\ \E i \in 1..Len(m.fonts) :
            m.fonts[i].PreviewRender = <<ErrorRenderingPrefix>> \o FigletFailed

Min(a, b) == IF a < b THEN a ELSE b

\* C12: for every text s and budget n, truncateString(s, n) has at most n
\* lines, they are the first lines of s, the last of them is not blank (the
\* result is empty when every kept line is blank), and the blank lines
\* stripped are those at the end of the first n lines, not those at the end
\* of s.
C12_TruncateContract ==
    call.stage \in {"truncated", "again"} =>
        LET in  == Split(call.s)
            out == Lines(call.out)
            k   == Len(out)
            cut == Min(call.n, Len(in))
        IN  /\ k <= call.n
            /\ k <= Len(in)
            /\ \A i \in 1..k : out[i] = in[i]
            /\ k > 0 => TrimSpace(out[k]) # <<>>
            /\ \A j \in (k + 1)..cut : TrimSpace(in[j]) = <<>>

\* a text of three lines cut to two, the blank second line stripped although
\* the text ends in a line that is not blank
C12_Witness ==
    /\ call.stage = "truncated"
    /\ call.s = <<"x", NL, NL, "x">>
    /\ call.n = 2
    /\ call.out = <<"x">>

\* C13: truncateString applied to its own result, with the same budget,
\* gives that result again.
C13_TruncateIdempotent ==
    call.stage = "again" => call.again = call.out

\* a text that the first application shortened, truncated a second time
C13_Witness ==
    /\ call.stage = "again"
    /\ call.s = <<"x", NL, "x", NL>>
    /\ call.n = 1
    /\ call.out = <<"x">>
    /\ call.again = <<"x">>

\* the steps that lead back to an earlier screen, each with its trigger
BackNavigation(from, to, trigger) ==
    \/ from = "stateDisplayFiglet" /\ to = "stateSelectFontWithPreview" /\ trigger = "key"
    \/ from = "stateOutputChoice" /\ to = "stateSelectFontWithPreview" /\ trigger = "key"
    \/ from = "stateSaveFileNameInput" /\ to = "stateOutputChoice" /\ trigger = "key"
    \/ from = "stateSelectFontWithPreview" /\ to = "stateInputText" /\ trigger = "key"
    \/ from = "stateShowStatusMessage" /\ to = "stateSelectFontWithPreview"
          /\ trigger \in {"key", "statusTimeout"}

\* C14: a back-navigation step dispatches no discovery, preview, render or
\* save command and leaves fonts, inputText and fullOutput as they were.
C14_BackNavigationFrame ==
    [][BackNavigation(m.state, m'.state, ev')
            => /\ NoDispatch
               /\ m'.fonts = m.fonts
               /\ m'.inputText = m.inputText
               /\ m'.fullFigletOutput = m.fullFigletOutput]_vars

\* back in OutputChoice from the file-name input, where a blank was typed
C14_Witness ==
    /\ ev = "key"
    /\ m.state = "stateOutputChoice"
    /\ m.textInput.value = <<" ">>
    /\ m.fullFigletOutput # <<>>
    /\ m.fonts # <<>>

\* every call of the tool a command in flight can make takes its font, text
\* and width from the values the command holds
SnapshotCalls ==
    /\ \A i \in 1..Len(tasks["preview"]) :
        LET cmd == tasks["preview"][i]
        IN  \A tool \in [1..Len(cmd.fonts) -> ToolBehaviours] :
                LET calls == RunGeneratePreviews(cmd, tool).calls
                IN  \A c \in 1..Len(calls) :
                        /\ calls[c].text = cmd.inputText
                        /\ calls[c].width \in {previewRenderWidth(cmd.termWidth), NoWidth}
                        /\ \E j \in 1..Len(cmd.fonts) : calls[c].font = cmd.fonts[j].Path
    /\ \A i \in 1..Len(tasks["render"]) :
        LET cmd == tasks["render"][i]
        IN  \A tool \in ToolBehaviours :
                LET calls == RunRenderFullFiglet(cmd, tool).calls
                IN  \A c \in 1..Len(calls) :
                        /\ calls[c].text = cmd.text
                        /\ calls[c].width \in {renderWidth(cmd.termWidth), NoWidth}
                        /\ calls[c].font = cmd.fontPath

\* the session after the step is Update's, for a message the completed
\* command of slot s can give from the values it holds
ResultOfSnapshot(s) ==
    \E i \in 1..Len(tasks[s]) :
        /\ tasks'[s] = Remove(tasks[s], i)
        /\ CASE s = "preview" ->
                  \E tool \in [1..Len(tasks[s][i].fonts) -> ToolBehaviours] :
                      m' = Update(m, RunGeneratePreviews(tasks[s][i], tool).msg).m
             [] s = "render" ->
                  \E tool \in ToolBehaviours :
                      m' = Update(m, RunRenderFullFiglet(tasks[s][i], tool).msg).m
             [] s = "save" ->
                  \E written \in BOOLEAN :
                      m' = Update(m, RunSaveToFile(tasks[s][i], written).msg).m
             [] s = "discovery" ->
                  \E d \in Discoveries : \E r \in findFigletFonts(d) :
                      m' = Update(m, RunLoadInitialFonts(r).msg).m

\* C15: a command computes its result from the values it was dispatched
\* with: no step, a resize included, alters a command in flight or the width
\* and text of the calls it will make; the session changes only in Update,
\* by the message the command gives from those values, by a key or by a
\* resize.
C15_TaskSnapshot ==
    /\ []SnapshotCalls
    /\ [][/\ \A s \in Slots :
               ~Completed(s) => SubSeq(tasks'[s], 1, Len(tasks[s])) = tasks[s]
          /\ \A s \in TaskSlots : Completed(s) => ResultOfSnapshot(s)
          /\ ev' = "statusTimeout" => m' = Update(m, statusTimeoutMsg).m
          /\ ev' = "key" => \E k \in Keys : m' = Update(m, KeyMsg(k)).m
          /\ ev' = "windowSize"
               => \E sz \in Sizes : m' = Update(m, WindowSizeMsg(sz[1], sz[2])).m]_vars

\* a resize was handled while a preview batch dispatched at another width
\* was in flight
C15_Witness ==
    /\ ev = "windowSize"
    /\ m.state = "stateLoadingPreviews"
    /\ tasks["preview"] # <<>>
    /\ m.termWidth # tasks["preview"][1].termWidth
    /\ previewRenderWidth(m.termWidth) # previewRenderWidth(tasks["preview"][1].termWidth)

\* the command the step dispatched to slot s, if it dispatched one
Dispatched(s) == Len(tasks'[s]) > Len(tasks[s])
NewCmd(s) == tasks'[s][Len(tasks'[s])]

\* C16: a resize handled in any screen sets termWidth and termHeight to the
\* new size, leaves screen, fonts, inputText, selectedFont and fullOutput
\* alone and dispatches nothing; a preview or render command dispatched
\* later takes its width from the termWidth of the session then.
C16_Resize ==
    [][/\ ev' = "windowSize"
            => /\ \E sz \in Sizes : m'.termWidth = sz[1] /\ m'.termHeight = sz[2]
               /\ m'.state = m.state
               /\ SameData
               /\ tasks' = tasks
       /\ Dispatched("preview")
            => /\ NewCmd("preview").termWidth = m'.termWidth
               /\ \A tool \in [1..Len(NewCmd("preview").fonts) -> ToolBehaviours] :
                    LET calls == RunGeneratePreviews(NewCmd("preview"), tool).calls
                    IN  \A c \in 1..Len(calls) :
                            calls[c].width \in {previewRenderWidth(m'.termWidth), NoWidth}
       /\ Dispatched("render")
            => /\ NewCmd("render").termWidth = m'.termWidth
               /\ \A tool \in ToolBehaviours :
                    RunRenderFullFiglet(NewCmd("render"), tool).calls[1].width
                        = renderWidth(m'.termWidth)]_vars

\* a render dispatched after a resize, at the width of the new size
C16_Witness ==
    /\ ev = "key"
    /\ m.state = "stateGeneratingFullOutput"
    /\ m.termWidth = 100
    /\ m.termHeight = 40
    /\ tasks["render"] # <<>>
    /\ tasks["render"][Len(tasks["render"])].termWidth = 100

\* the texts tried in a text field
Typed == UNION {[1..n -> TextRunes] : n \in 0..MaxTyped}

\* Enter handled by Update with v in the text field
EnterOn(v) == Update([m EXCEPT !.textInput.value = v], KeyMsg("enter"))

NoOuterSpace(s) == s # <<>> /\ ~IsSpace(s[1]) /\ ~IsSpace(s[Len(s)])

\* C17: in InputText, Enter on a text with a non-empty trimmed value sets
\* inputText to the trimmed value, moves to LoadingPreviews and dispatches
\* exactly one preview batch; Enter on an empty or blank text stays in
\* InputText and dispatches nothing.
C17_ConfirmText ==
    [][m.state = "stateInputText"
        => /\ \A v \in Typed :
                LET r == EnterOn(v)
                IN  IF \E i \in 1..Len(v) : ~IsSpace(v[i])
                    THEN /\ r.m.inputText = TrimSpace(v)
                         /\ NoOuterSpace(r.m.inputText)
                         /\ r.m.state = "stateLoadingPreviews"
                         /\ Len(r.cmds) = 1
                         /\ r.cmds[1].slot = "preview"
                         /\ r.cmds[1].inputText = r.m.inputText
                         /\ ~r.quit
                    ELSE /\ r.m.state = "stateInputText"
                         /\ r.cmds = <<>>
                         /\ ~r.quit
           /\ KeyPressOf("enter")
                => /\ m' = EnterOn(m.textInput.value).m
                   /\ tasks' = After("none", 0, EnterOn(m.textInput.value).cmds)]_vars

\* a typed text was confirmed: LoadingPreviews, one batch in flight for it
C17_Witness ==
    /\ ev = "key"
    /\ m.state = "stateLoadingPreviews"
    /\ m.inputText = <<"t">>
    /\ Len(tasks["preview"]) = 1
    /\ tasks["preview"][1].inputText = <<"t">>

\* C18: in SaveFilenameInput, Enter on a non-empty trimmed file name
\* dispatches a save of the session's fullOutput to that name; Enter on an
\* empty name dispatches nothing and keeps the screen; escape moves to
\* OutputChoice and dispatches nothing; the save-success message moves the
\* screen to StatusMessage.
C18_SaveFile ==
    [][/\ m.state = "stateSaveFileNameInput"
        => /\ \A v \in Typed :
                LET r == EnterOn(v)
                IN  IF \E i \in 1..Len(v) : ~IsSpace(v[i])
                    THEN /\ Len(r.cmds) = 1
                         /\ r.cmds[1].slot = "save"
                         /\ r.cmds[1].content = m.fullFigletOutput
                         /\ r.cmds[1].filename = TrimSpace(v)
                         /\ ~r.quit
                    ELSE /\ r.cmds = <<>>
                         /\ r.m.state = "stateSaveFileNameInput"
                         /\ ~r.quit
           /\ KeyPressOf("enter")
                => tasks' = After("none", 0, EnterOn(m.textInput.value).cmds)
           /\ KeyPressOf("esc")
                => m'.state = "stateOutputChoice" /\ tasks' = tasks
       /\ (Completed("save") /\ ev' = "fileSaved")
            => m'.state = "stateShowStatusMessage"]_vars

\* the rendered output was saved to the typed name; the status shows it
C18_Witness ==
    /\ ev = "fileSaved"
    /\ m.state = "stateShowStatusMessage"
    /\ m.statusMessage = SavedStatus(<<"t">>)
    /\ m.fullFigletOutput # <<>>

\* C19: in StatusMessage the status timeout and any key press each move the
\* screen to SelectFont, clear statusMessage and dispatch nothing.
C19_StatusAnyKey ==
    [][(/\ m.state = "stateShowStatusMessage"
        /\ \/ ev' = "statusTimeout"
           \/ \E k \in Keys \ {"ctrl+c"} : KeyPressOf(k))
            => /\ m'.state = "stateSelectFontWithPreview"
               /\ m'.statusMessage = NoStatus
               /\ NoDispatch]_vars

\* C20: in Error every key press terminates the program.
C20_ErrorAnyKey ==
    [][(m.state = "stateError" /\ \E k \in Keys : KeyPressOf(k)) => quit']_vars

\* C21: started with a text argument, the program shows the text-input
\* screen with that text as the value of the input.
C21_TextArgument ==
    (args # NoArgs /\ m.state = "stateInputText" /\ ev = "initialResourcesLoaded")
        => m.textInput.value = args[1]

\* C22: a status timeout handled while the screen is not StatusMessage
\* leaves the screen as it is.
C22_StaleTimeoutIgnored ==
    [][(ev' = "statusTimeout" /\ Completed("tick") /\ m.state # "stateShowStatusMessage")
            => m'.state = m.state]_vars

\* C23: in OutputChoice, SaveFilenameInput and DisplayOutput, fullOutput is
\* the output of the render command dispatched for the path of the current
\* selectedFont and the current inputText.
C23_FullOutputMatches ==
    m.state \in {"stateOutputChoice", "stateSaveFileNameInput", "stateDisplayFiglet"}
        => /\ renderedFor = [fontPath |-> m.selectedFontMeta.Path, text |-> m.inputText]
           /\ m.fullFigletOutput \in {WideArt, NarrowArt}

\* C26: in every screen from LoadingPreviews to StatusMessage inputText is
\* not empty, and no render command in flight has an empty text.
C26_InputTextNonEmpty ==
    /\ m.state \in {"stateLoadingPreviews", "stateSelectFontWithPreview",
                    "stateGeneratingFullOutput", "stateOutputChoice",
                    "stateSaveFileNameInput", "stateDisplayFiglet",
                    "stateShowStatusMessage"}
            => m.inputText # <<>>
    /\ \A i \in 1..Len(tasks["render"]) : tasks["render"][i].text # <<>>
    /\ \A i \in 1..Len(tasks["preview"]) : tasks["preview"][i].inputText # <<>>

Max(a, b) == IF a > b THEN a ELSE b

\* C25: for every terminal width, 0 included, the wrap width of the previews
\* is max(width - 20, 20) and that of the full output max(width - 8, 20);
\* both are at least 20 and the full output's is not the smaller one.
C25_WrapWidths ==
    /\ call.stage \in {"preview", "full"}
        => /\ call.preview = Max(call.termWidth - 20, 20)
           /\ call.preview >= 20
    /\ call.stage = "full"
        => /\ call.full = Max(call.termWidth - 8, 20)
           /\ call.full >= 20
           /\ call.full >= call.preview

\* a width for which the previews are floored and the full output is not
C25_Witness ==
    /\ call.stage = "full"
    /\ call.termWidth = 30
    /\ call.preview = 20
    /\ call.full = 22

\* the (name, path) pairs of a font sequence, in order
NamesPaths(fs) == [i \in 1..Len(fs) |-> <<fs[i].Name, fs[i].Path>>]

AscendingByName(fs) ==
    \A i, j \in 1..Len(fs) : i < j => ~NameLess(fs[j].Name, fs[i].Name)

\* C27: discovery gives fonts a non-empty sequence sorted ascending by name;
\* from then on the (name, path) pairs of fonts stay that sequence in every
\* state, and a preview-batch completion, late or duplicate ones included,
\* changes previewText fields only.
C27_FontsImmutable ==
    /\ []AscendingByName(m.fonts)
    /\ [][/\ ev' = "initialResourcesLoaded"
               => /\ m'.fonts # <<>>
                  /\ \A i \in 1..Len(m'.fonts) : m'.fonts[i].PreviewRender = <<>>
          /\ (m.fonts = <<>> /\ m'.fonts # <<>>) => ev' = "initialResourcesLoaded"
          /\ m.fonts # <<>> => NamesPaths(m'.fonts) = NamesPaths(m.fonts)
          /\ m'.fonts # m.fonts
               => ev' \in {"initialResourcesLoaded", "previewsGenerated"}]_vars

\* two discovered fonts, in order, after a preview batch filled their previews
C27_Witness ==
    /\ ev = "previewsGenerated"
    /\ NamesPaths(m.fonts) = <<(<<"a", "/f/a.flf">>), (<<"b", "/f/b.flf">>)>>
    /\ m.fonts[1].PreviewRender # <<>>
    /\ m.fonts[2].PreviewRender # <<>>

\* the messages a command of slot s can return
CompletionTypes(s) ==
    CASE s = "discovery" -> {"initialResourcesLoaded", "error"}
      [] s = "preview"   -> {"previewsGenerated"}
      [] s = "render"    -> {"fullFigletRendered", "error"}
      [] s = "save"      -> {"fileSaved", "error"}

\* a step that completes a command removes that one command and handles one
\* message of its kind; a completion message is handled only in such a step
OneCompletionEach ==
    /\ \A s \in TaskSlots :
        Completed(s)
            => /\ Len(tasks'[s]) = Len(tasks[s]) - 1
               /\ ev' \in CompletionTypes(s)
               /\ \A t \in TaskSlots \ {s} : ~Completed(t)
    /\ ev' \in UNION {CompletionTypes(s) : s \in TaskSlots}
            => \E s \in TaskSlots : Completed(s)

\* C24: when every command in flight completes, its message is handled and
\* no quitting key is pressed, each command gives exactly one completion
\* message, InitialLoading leads to InputText or Error, LoadingPreviews leads
\* to SelectFont, and GeneratingOutput leads to OutputChoice or Error.
C24_Progress ==
    /\ [][OneCompletionEach]_vars
    /\ (m.state = "stateInitialLoading")
            ~> (m.state \in {"stateInputText", "stateError"})
    /\ (m.state = "stateLoadingPreviews")
            ~> (m.state = "stateSelectFontWithPreview")
    /\ (m.state = "stateGeneratingFullOutput")
            ~> (m.state \in {"stateOutputChoice", "stateError"})

\* a render completed and the session arrived in OutputChoice
C24_Witness ==
    /\ ev = "fullFigletRendered"
    /\ m.state = "stateOutputChoice"
    /\ tasks["render"] = <<>>
    /\ ~quit

====
